---------------------------- MODULE Spec2Model ----------------------------
(***************************************************************************)
(* FunctionParserSequence::parse (cpp-ch/local-engine/Parser/               *)
(* scalar_function_parser/sequence.cpp): the lowering of                    *)
(* sequence(start, end[, step]) into an ActionsDAG, and the row-wise        *)
(* evaluation of the DAG it builds.                                         *)
(*                                                                          *)
(* The DAG is a sequence of nodes; a node handle is its index.  parse is    *)
(* translated statement by statement; the builder calls it makes            *)
(* (parseFunctionArguments, toFunctionNode, addColumnToActionsDAG,          *)
(* convertNodeType, convertNodeTypeIfNeeded) and the engine primitives the  *)
(* nodes name live outside the three source files and follow spec.md        *)
(* sections 4.1 and 6.                                                      *)
(***************************************************************************)
EXTENDS Integers, Sequences, FiniteSets, TLC

VARIABLES
    call,         \* the serialized call: [args, output_type]
    dagBefore,    \* the builder's nodes before parse is entered
    dag,          \* the builder's nodes (ActionsDAG), append-only
    parsed_args,  \* parse's local parsed_args: handles of the argument nodes
    built,        \* the node parse builds before the output coercion (0: none)
    ret,          \* the node parse returns (0: none)
    status,       \* "init", "ok" or "NUMBER_OF_ARGUMENTS_DOESNT_MATCH"
    row,          \* the row the DAG was last executed on: one value per argument
    nested,       \* what the engine stores under a NULL of that row
    lazy,         \* whether that execution short-circuited conditionals
    columns,      \* the value of every node on that row
    out           \* the value of ret on that row

vars == <<call, dagBefore, dag, parsed_args, built, ret, status, row, nested, lazy, columns, out>>

----------------------------------------------------------------------------
(* Bounds *)

\* arguments in a call: 1 .. MaxArgs
MaxArgs == 4
\* start and end of an executed row range over -MaxVal .. MaxVal
MaxVal == 10
\* the step of an executed row ranges over -MaxStep .. MaxStep
MaxStep == 3

----------------------------------------------------------------------------
(* Types: DataTypeInt<w>, Array(Int<w>) and their Nullable wrappers *)

IntT(w, n) == [k |-> "int", w |-> w, nullable |-> n]
ArrT(w, n) == [k |-> "arr", w |-> w, nullable |-> n]

Int32Width == 32
DataTypeInt32 == IntT(Int32Width, FALSE)
UInt8 == IntT(8, FALSE)

isNullable(t) == t.nullable
makeNullable(t) == [t EXCEPT !.nullable = TRUE]
removeNullable(t) == [t EXCEPT !.nullable = FALSE]

Max(a, b) == IF a >= b THEN a ELSE b
Min(a, b) == IF a <= b THEN a ELSE b

RECURSIVE MaxWidth(_)
MaxWidth(ts) == IF ts = <<>> THEN 0 ELSE Max(ts[1].w, MaxWidth(Tail(ts)))

AnyNullable(ts) == \E i \in 1..Len(ts) : ts[i].nullable

\* the branches of multiIf(c1, t1, c2, t2, ..., else): the even positions and the last
Branches(ts) == [j \in 1..((Len(ts) + 1) \div 2) |->
                    IF 2 * j <= Len(ts) THEN ts[2 * j] ELSE ts[Len(ts)]]

\* result type of a function application (spec 4.1 addFunction: nullability is
\* inherited from the arguments, numeric width is promoted)
FunctionType(name, ts) ==
    CASE name = "assumeNotNull" -> removeNullable(ts[1])
      [] name = "isNull"        -> UInt8
      [] name \in {"lessOrEquals", "equals"} -> IntT(8, AnyNullable(ts))
      [] name \in {"plus", "minus"} -> IntT(Min(64, 2 * MaxWidth(ts)), AnyNullable(ts))
      [] name = "modulo"        -> IntT(ts[2].w, AnyNullable(ts))
      [] name = "if"            -> [k |-> ts[2].k, w |-> Max(ts[2].w, ts[3].w),
                                    nullable |-> ts[2].nullable \/ ts[3].nullable]
      [] name = "multiIf"       -> [k |-> ts[2].k, w |-> MaxWidth(Branches(ts)),
                                    nullable |-> AnyNullable(Branches(ts))]
      [] name = "range"         -> ArrT(MaxWidth(ts), AnyNullable(ts))

----------------------------------------------------------------------------
(* Values of one row *)

IntV(i) == [tag |-> "int", i |-> i, a |-> <<>>]
ArrV(s) == [tag |-> "arr", i |-> 0, a |-> s]
NullV   == [tag |-> "null", i |-> 0, a |-> <<>>]
\* the engine threw while computing the value
ErrV    == [tag |-> "err", i |-> 0, a |-> <<>>]
\* no value: nothing was executed
NoneV   == [tag |-> "none", i |-> 0, a |-> <<>>]

----------------------------------------------------------------------------
(* DAG nodes and the builder *)

InputNode(pos, t) ==
    [kind |-> "input", name |-> "", children |-> <<>>, type |-> t, value |-> NoneV, pos |-> pos]
ConstNode(t, v) ==
    [kind |-> "const", name |-> "", children |-> <<>>, type |-> t, value |-> v, pos |-> 0]
FuncNode(name, cs, t) ==
    [kind |-> "function", name |-> name, children |-> cs, type |-> t, value |-> NoneV, pos |-> 0]

\* add-or-find: the same logical node requested twice is the same node
AddNode(d, node) ==
    IF \E i \in 1..Len(d) : d[i] = node
    THEN [d |-> d, n |-> CHOOSE i \in 1..Len(d) : d[i] = node]
    ELSE [d |-> Append(d, node), n |-> Len(d) + 1]

addColumnToActionsDAG(d, t, v) == AddNode(d, ConstNode(t, v))

toFunctionNode(d, name, cs) ==
    AddNode(d, FuncNode(name, cs, FunctionType(name, [i \in 1..Len(cs) |-> d[cs[i]].type])))

\* a CAST of node n to type t
convertNodeType(d, n, t) == AddNode(d, FuncNode("CAST", <<n>>, t))

convertNodeTypeIfNeeded(output_type, n, d) ==
    IF d[n].type = output_type THEN [d |-> d, n |-> n] ELSE convertNodeType(d, n, output_type)

\* the literal a literal argument carries
LiteralValue == IntV(1)

\* the arguments are translated in order: a column reference is the input node
\* the builder already holds, a literal becomes a constant
RECURSIVE parseFunctionArguments(_, _, _)
parseFunctionArguments(args, i, acc) ==
    IF i > Len(args) THEN acc
    ELSE LET r == IF args[i].kind = "literal"
                  THEN addColumnToActionsDAG(acc.d, args[i].type, LiteralValue)
                  ELSE AddNode(acc.d, InputNode(i, args[i].type))
         IN parseFunctionArguments(args, i + 1, [d |-> r.d, nodes |-> Append(acc.nodes, r.n)])

----------------------------------------------------------------------------
(* FunctionParserSequence::parse, statement by statement *)

\* the arity test without its upper bound
ArityOutOfRange_NoUpperBound(n) == n < 2

\* the arity test that throws NUMBER_OF_ARGUMENTS_DOESNT_MATCH
ArityOutOfRange(n) == n < 2 \/ n > 3

\* the default step with its two constants exchanged
default_step_args_Swapped(start_le_end_node, one_const_node, minus_one_const_node) ==
    <<start_le_end_node, minus_one_const_node, one_const_node>>

\* step = if(start <= end, 1, -1)
default_step_args(start_le_end_node, one_const_node, minus_one_const_node) ==
    <<start_le_end_node, one_const_node, minus_one_const_node>>

\* the difference taken on the non-null projections
end_minus_start_args_Projections(start_arg, end_arg, start_not_null_node, end_not_null_node) ==
    <<end_not_null_node, start_not_null_node>>

\* (end - start)
end_minus_start_args(start_arg, end_arg, start_not_null_node, end_not_null_node) ==
    <<end_arg, start_arg>>

\* (end - start) % step
modulo_step_args(end_minus_start_node, step_arg, step_not_null_node) ==
    <<end_minus_start_node, step_arg>>

\* if(isNull(step), 1, assumeNotNull(step))
tricky_step_args(step_is_null_node, one_const_node, step_not_null_node) ==
    <<step_is_null_node, one_const_node, step_not_null_node>>

\* the sum taken with the placeholder step
end_plus_step_args_Placeholder(end_not_null_node, step_not_null_node, tricky_step_node) ==
    <<end_not_null_node, tricky_step_node>>

\* end + step
end_plus_step_args(end_not_null_node, step_not_null_node, tricky_step_node) ==
    <<end_not_null_node, step_not_null_node>>

\* the inclusive range built on end instead of end + step
range_1_args_NoPlus(start_not_null_node, end_plus_step_node, end_not_null_node, tricky_step_node) ==
    <<start_not_null_node, end_not_null_node, tricky_step_node>>

\* range(start, end + step, step)
range_1_args(start_not_null_node, end_plus_step_node, end_not_null_node, tricky_step_node) ==
    <<start_not_null_node, end_plus_step_node, tricky_step_node>>

\* range(start, end, step)
range_2_args(start_not_null_node, end_plus_step_node, end_not_null_node, tricky_step_node) ==
    <<start_not_null_node, end_not_null_node, tricky_step_node>>

\* the test without the step's flag
NoneNullable_IgnoresStep(is_arr_nullable, is_val_nullable, is_step_nullable) ==
    ~is_arr_nullable /\ ~is_val_nullable

\* the test without its negations
NoneNullable_NoNegation(is_arr_nullable, is_val_nullable, is_step_nullable) ==
    is_arr_nullable /\ is_val_nullable /\ is_step_nullable

\* the test that selects the path without null guards
NoneNullable(is_arr_nullable, is_val_nullable, is_step_nullable) ==
    ~is_arr_nullable /\ ~is_val_nullable /\ ~is_step_nullable

\* the common type taken from the exclusive range
result_type_FromExclusive(range_1_type, range_2_type) == makeNullable(range_2_type)

\* the common type of the nullable path's branches
result_type(range_1_type, range_2_type) == makeNullable(range_1_type)

\* the final multiIf with the inclusive test ahead of the null guards
multiIf_args_CondFirst(start_is_null_node, end_is_null_node, step_is_null_node, null_const_node, modulo_step_eq_zero_node, wrap_range_1_node, wrap_range_2_node) ==
    << modulo_step_eq_zero_node, wrap_range_1_node,
       start_is_null_node, null_const_node,
       end_is_null_node, null_const_node,
       step_is_null_node, null_const_node,
       wrap_range_2_node >>

\* the operands of the final multiIf
multiIf_args(start_is_null_node, end_is_null_node, step_is_null_node, null_const_node, modulo_step_eq_zero_node, wrap_range_1_node, wrap_range_2_node) ==
    << start_is_null_node, null_const_node,
       end_is_null_node, null_const_node,
       step_is_null_node, null_const_node,
       modulo_step_eq_zero_node, wrap_range_1_node,
       wrap_range_2_node >>

\* the operands of the final if of the path without null guards
ret_if_args(modulo_step_eq_zero_node, range_1_node, range_2_node) ==
    <<modulo_step_eq_zero_node, range_1_node, range_2_node>>

Thrown(d, nodes) ==
    [dag |-> d, parsed_args |-> nodes, built |-> 0, ret |-> 0,
     status |-> "NUMBER_OF_ARGUMENTS_DOESNT_MATCH"]

Returned(d, nodes, b, r) ==
    [dag |-> d, parsed_args |-> nodes, built |-> b, ret |-> r, status |-> "ok"]

\* parse's locals after the arity test: the builder's nodes (d), the argument
\* handles, and every node handle still unset (0 is nullptr)
Locals(d, nodes) ==
    [d |-> d, parsed_args |-> nodes,
     start_arg |-> nodes[1], end_arg |-> nodes[2],
     step_arg |-> IF Len(nodes) = 3 THEN nodes[3] ELSE 0,
     one_const_node |-> 0, is_arr_nullable |-> FALSE, is_val_nullable |-> FALSE,
     is_step_nullable |-> FALSE,
     start_not_null_node |-> 0, end_not_null_node |-> 0, step_not_null_node |-> 0,
     start_is_null_node |-> 0, end_is_null_node |-> 0, step_is_null_node |-> 0,
     end_minus_start_node |-> 0, modulo_step_node |-> 0, zero_const_node |-> 0,
     modulo_step_eq_zero_node |-> 0, tricky_step_node |-> 0, end_plus_step_node |-> 0,
     range_1_node |-> 0, range_2_node |-> 0,
     result_type |-> UInt8, wrap_range_1_node |-> 0, wrap_range_2_node |-> 0,
     null_const_node |-> 0]

with_one_const_node(l) ==
    LET r == addColumnToActionsDAG(l.d, DataTypeInt32, IntV(1))
    IN [l EXCEPT !.d = r.d, !.one_const_node = r.n]

\* if (!step_arg) { ... step_arg = step_if_node; }
with_default_step(l) ==
    IF l.step_arg # 0 THEN l
    ELSE LET minus_one == addColumnToActionsDAG(l.d, DataTypeInt32, IntV(-1))
             start_le_end == toFunctionNode(minus_one.d, "lessOrEquals", <<l.start_arg, l.end_arg>>)
             step_if == toFunctionNode(start_le_end.d, "if",
                            default_step_args(start_le_end.n, l.one_const_node, minus_one.n))
         IN [l EXCEPT !.d = step_if.d, !.step_arg = step_if.n]

with_nullable_flags(l) ==
    [l EXCEPT !.is_arr_nullable  = isNullable(l.d[l.start_arg].type),
              !.is_val_nullable  = isNullable(l.d[l.end_arg].type),
              !.is_step_nullable = isNullable(l.d[l.step_arg].type)]

with_start_not_null_node(l) ==
    LET r == toFunctionNode(l.d, "assumeNotNull", <<l.start_arg>>)
    IN [l EXCEPT !.d = r.d, !.start_not_null_node = r.n]

with_end_not_null_node(l) ==
    LET r == toFunctionNode(l.d, "assumeNotNull", <<l.end_arg>>)
    IN [l EXCEPT !.d = r.d, !.end_not_null_node = r.n]

with_step_not_null_node(l) ==
    LET r == toFunctionNode(l.d, "assumeNotNull", <<l.step_arg>>)
    IN [l EXCEPT !.d = r.d, !.step_not_null_node = r.n]

with_start_is_null_node(l) ==
    LET r == toFunctionNode(l.d, "isNull", <<l.start_arg>>)
    IN [l EXCEPT !.d = r.d, !.start_is_null_node = r.n]

with_end_is_null_node(l) ==
    LET r == toFunctionNode(l.d, "isNull", <<l.end_arg>>)
    IN [l EXCEPT !.d = r.d, !.end_is_null_node = r.n]

with_step_is_null_node(l) ==
    LET r == toFunctionNode(l.d, "isNull", <<l.step_arg>>)
    IN [l EXCEPT !.d = r.d, !.step_is_null_node = r.n]

with_end_minus_start_node(l) ==
    LET r == toFunctionNode(l.d, "minus",
                 end_minus_start_args(l.start_arg, l.end_arg,
                                      l.start_not_null_node, l.end_not_null_node))
    IN [l EXCEPT !.d = r.d, !.end_minus_start_node = r.n]

with_modulo_step_node(l) ==
    LET r == toFunctionNode(l.d, "modulo",
                 modulo_step_args(l.end_minus_start_node, l.step_arg, l.step_not_null_node))
    IN [l EXCEPT !.d = r.d, !.modulo_step_node = r.n]

with_zero_const_node(l) ==
    LET r == addColumnToActionsDAG(l.d, DataTypeInt32, IntV(0))
    IN [l EXCEPT !.d = r.d, !.zero_const_node = r.n]

with_modulo_step_eq_zero_node(l) ==
    LET r == toFunctionNode(l.d, "equals", <<l.modulo_step_node, l.zero_const_node>>)
    IN [l EXCEPT !.d = r.d, !.modulo_step_eq_zero_node = r.n]

with_tricky_step_node(l) ==
    LET r == toFunctionNode(l.d, "if",
                 tricky_step_args(l.step_is_null_node, l.one_const_node, l.step_not_null_node))
    IN [l EXCEPT !.d = r.d, !.tricky_step_node = r.n]

with_end_plus_step_node(l) ==
    LET r == toFunctionNode(l.d, "plus",
                 end_plus_step_args(l.end_not_null_node, l.step_not_null_node, l.tricky_step_node))
    IN [l EXCEPT !.d = r.d, !.end_plus_step_node = r.n]

with_range_1_node(l) ==
    LET r == toFunctionNode(l.d, "range",
                 range_1_args(l.start_not_null_node, l.end_plus_step_node,
                              l.end_not_null_node, l.tricky_step_node))
    IN [l EXCEPT !.d = r.d, !.range_1_node = r.n]

with_range_2_node(l) ==
    LET r == toFunctionNode(l.d, "range",
                 range_2_args(l.start_not_null_node, l.end_plus_step_node,
                              l.end_not_null_node, l.tricky_step_node))
    IN [l EXCEPT !.d = r.d, !.range_2_node = r.n]

\* the statements from the one constant to the two range nodes, in order
parse_nodes(l) ==
    with_range_2_node(with_range_1_node(with_end_plus_step_node(with_tricky_step_node(
    with_modulo_step_eq_zero_node(with_zero_const_node(with_modulo_step_node(
    with_end_minus_start_node(
    with_step_is_null_node(with_end_is_null_node(with_start_is_null_node(
    with_step_not_null_node(with_end_not_null_node(with_start_not_null_node(
    with_nullable_flags(with_default_step(with_one_const_node(l)))))))))))))))))

\* return convertNodeTypeIfNeeded(substrait_func, node, actions_dag)
return_converted(substrait_func, d, nodes, node) ==
    LET conv == convertNodeTypeIfNeeded(substrait_func.output_type, node, d)
    IN Returned(conv.d, nodes, node, conv.n)

\* the path without null guards
return_if(substrait_func, l) ==
    LET ret_node == toFunctionNode(l.d, "if",
                        ret_if_args(l.modulo_step_eq_zero_node, l.range_1_node, l.range_2_node))
    IN return_converted(substrait_func, ret_node.d, l.parsed_args, ret_node.n)

with_result_type(l) ==
    [l EXCEPT !.result_type = result_type(l.d[l.range_1_node].type, l.d[l.range_2_node].type)]

with_wrap_range_1_node(l) ==
    LET r == convertNodeType(l.d, l.range_1_node, l.result_type)
    IN [l EXCEPT !.d = r.d, !.wrap_range_1_node = r.n]

with_wrap_range_2_node(l) ==
    LET r == convertNodeType(l.d, l.range_2_node, l.result_type)
    IN [l EXCEPT !.d = r.d, !.wrap_range_2_node = r.n]

with_null_const_node(l) ==
    LET r == addColumnToActionsDAG(l.d, l.result_type, NullV)
    IN [l EXCEPT !.d = r.d, !.null_const_node = r.n]

\* the path that returns a nullable result
return_multiIf(substrait_func, l) ==
    LET result_node == toFunctionNode(l.d, "multiIf",
                           multiIf_args(l.start_is_null_node, l.end_is_null_node,
                                        l.step_is_null_node, l.null_const_node,
                                        l.modulo_step_eq_zero_node,
                                        l.wrap_range_1_node, l.wrap_range_2_node))
    IN return_converted(substrait_func, result_node.d, l.parsed_args, result_node.n)

parse_return(substrait_func, l) ==
    IF NoneNullable(l.is_arr_nullable, l.is_val_nullable, l.is_step_nullable)
    THEN return_if(substrait_func, l)
    ELSE return_multiIf(substrait_func,
             with_null_const_node(with_wrap_range_2_node(with_wrap_range_1_node(
             with_result_type(l)))))

parse(substrait_func, actions_dag) ==
    LET pa == parseFunctionArguments(substrait_func.args, 1, [d |-> actions_dag, nodes |-> <<>>])
    IN IF ArityOutOfRange(Len(pa.nodes)) THEN Thrown(pa.d, pa.nodes)
       ELSE parse_return(substrait_func, parse_nodes(Locals(pa.d, pa.nodes)))

----------------------------------------------------------------------------
(* The engine primitives, on the values of one row (spec 6) *)

Abs(x) == IF x < 0 THEN -x ELSE x

\* modulo with the sign of the dividend (C++ %)
TruncMod(a, b) == IF a >= 0 THEN a % Abs(b) ELSE -((-a) % Abs(b))

\* two's complement value of x in w bits; every value explored lies within
\* 31 bits, so the wider types hold it unchanged
Wrap(x, w) == IF w >= 31 THEN x
              ELSE LET m == 2 ^ w
                       r == x % m
                   IN IF r >= 2 ^ (w - 1) THEN r - m ELSE r

\* range(start, end, step): the half-open progression; a zero step is rejected
RangeLen(a, b, s) ==
    IF s > 0 /\ a < b THEN ((b - a - 1) \div s) + 1
    ELSE IF s < 0 /\ a > b THEN ((a - b - 1) \div (-s)) + 1
    ELSE 0

Range(a, b, s) ==
    IF s = 0 THEN ErrV
    ELSE ArrV([j \in 1..RangeLen(a, b, s) |-> a + (j - 1) * s])

IsErr(v)  == v.tag = "err"
IsNullV(v) == v.tag = "null"
\* a NULL condition counts as false
Truthy(v) == v.tag = "int" /\ v.i # 0

AnyErr(vs)  == \E j \in 1..Len(vs) : IsErr(vs[j])
AnyNull(vs) == \E j \in 1..Len(vs) : IsNullV(vs[j])

\* multiIf: the first condition that holds selects its branch, else the last operand
RECURSIVE MultiIfPick(_, _)
MultiIfPick(vs, j) ==
    IF j >= Len(vs) THEN Len(vs)
    ELSE IF IsErr(vs[j]) THEN j
    ELSE IF Truthy(vs[j]) THEN j + 1
    ELSE MultiIfPick(vs, j + 2)

CastValue(v, t) ==
    CASE v.tag = "int" -> IntV(Wrap(v.i, t.w))
      [] v.tag = "arr" -> ArrV([j \in 1..Len(v.a) |-> Wrap(v.a[j], t.w)])
      [] v.tag = "null" -> IF t.nullable THEN NullV ELSE ErrV
      [] OTHER -> v

\* the value of a function node from the values of its operands.  g is what
\* the engine stores under a NULL; when lz, conditionals evaluate only the
\* operand they select, otherwise every operand is evaluated and a throw in any
\* of them is a throw of the node
ApplyFunction(name, vs, t, g, lz) ==
    CASE name = "if" ->
            IF IsErr(vs[1]) \/ (~lz /\ AnyErr(vs)) THEN ErrV
            ELSE IF Truthy(vs[1]) THEN vs[2] ELSE vs[3]
      [] name = "multiIf" ->
            IF ~lz /\ AnyErr(vs) THEN ErrV
            ELSE LET j == MultiIfPick(vs, 1) IN IF IsErr(vs[j]) THEN ErrV ELSE vs[j]
      [] name = "isNull" ->
            IF IsErr(vs[1]) THEN ErrV ELSE IntV(IF IsNullV(vs[1]) THEN 1 ELSE 0)
      [] name = "assumeNotNull" ->
            IF IsNullV(vs[1]) THEN IntV(g) ELSE vs[1]
      [] name = "CAST" -> CastValue(vs[1], t)
      [] OTHER ->
            IF AnyErr(vs) THEN ErrV
            ELSE IF AnyNull(vs) THEN NullV
            ELSE CASE name = "plus"  -> IntV(vs[1].i + vs[2].i)
                   [] name = "minus" -> IntV(vs[1].i - vs[2].i)
                   [] name = "modulo" ->
                        IF vs[2].i = 0 THEN ErrV ELSE IntV(TruncMod(vs[1].i, vs[2].i))
                   [] name = "equals" -> IntV(IF vs[1].i = vs[2].i THEN 1 ELSE 0)
                   [] name = "lessOrEquals" -> IntV(IF vs[1].i <= vs[2].i THEN 1 ELSE 0)
                   [] name = "range" -> Range(vs[1].i, vs[2].i, vs[3].i)

\* the values of nodes 1..k of d on row rw (operands precede their node)
RECURSIVE EvalUpTo(_, _, _, _, _)
EvalUpTo(d, k, rw, g, lz) ==
    IF k = 0 THEN <<>>
    ELSE LET prev == EvalUpTo(d, k - 1, rw, g, lz)
             node == d[k]
             v == CASE node.kind = "input" -> rw[node.pos]
                    [] node.kind = "const" -> node.value
                    [] OTHER -> ApplyFunction(node.name,
                                    [j \in 1..Len(node.children) |-> prev[node.children[j]]],
                                    node.type, g, lz)
         IN Append(prev, v)

\* every node of d on row rw
Execute(d, rw, g, lz) == EvalUpTo(d, Len(d), rw, g, lz)

----------------------------------------------------------------------------
(* The calls and rows explored *)

ArgWidths == {8, 16, 32, 64}
ArgTypes  == {IntT(w, n) : w \in ArgWidths, n \in BOOLEAN}
Arg(kind, t) == [kind |-> kind, type |-> t]

\* parse reads parsed_args[0..2] only: the arguments after the third vary in kind alone
ArgsAt(i) == IF i <= 3 THEN {Arg(kd, t) : kd \in {"column", "literal"}, t \in ArgTypes}
             ELSE {Arg(kd, DataTypeInt32) : kd \in {"column", "literal"}}
\* the calls that are executed: Int32 columns, nullable or not
ColumnArgsAt(i) == {Arg("column", IntT(Int32Width, n)) : n \in (IF i <= 3 THEN BOOLEAN ELSE {FALSE})}

\* the arguments position i may hold, in the calls of every kind (wide) or in
\* the executed calls
ArgDomain(wide, i) == IF wide THEN ArgsAt(i) ELSE ColumnArgsAt(i)

ArgLists(wide) ==
    UNION {{as \in [1..n -> UNION {ArgDomain(wide, i) : i \in 1..n}] :
                \A i \in 1..n : as[i] \in ArgDomain(wide, i)}
           : n \in 1..MaxArgs}

OutputTypes == {ArrT(w, n) : w \in {32, 64}, n \in BOOLEAN}

\* the input columns the builder holds before the call is parsed
RECURSIVE InputNodes(_, _)
InputNodes(args, i) ==
    IF i > Len(args) THEN <<>>
    ELSE (IF args[i].kind = "column" THEN <<InputNode(i, args[i].type)>> ELSE <<>>)
         \o InputNodes(args, i + 1)

InitWith(wide, outs) ==
    /\ call \in {[args |-> as, output_type |-> ot] : as \in ArgLists(wide), ot \in outs}
    /\ dagBefore = InputNodes(call.args, 1)
    /\ dag = dagBefore
    /\ parsed_args = <<>>
    /\ built = 0
    /\ ret = 0
    /\ status = "init"
    /\ row = <<>>
    /\ nested = 0
    /\ lazy = FALSE
    /\ columns = <<>>
    /\ out = NoneV

\* calls of every argument kind and width, parsed only
InitParse == InitWith(TRUE, OutputTypes)

\* calls on Int32 columns, parsed and executed
Init == InitWith(FALSE, {ArrT(32, TRUE), ArrT(64, TRUE)})

\* FunctionParserSequence::parse on the call
Parse ==
    /\ status = "init"
    /\ LET r == parse(call, dag)
       IN /\ dag' = r.dag
          /\ parsed_args' = r.parsed_args
          /\ built' = r.built
          /\ ret' = r.ret
          /\ status' = r.status
    /\ UNCHANGED <<call, dagBefore, row, nested, lazy, columns, out>>

Vals(i)  == IF i = 3 THEN (-MaxStep)..MaxStep ELSE (-MaxVal)..MaxVal
Cell(a, i) == {IntV(x) : x \in Vals(i)} \cup (IF a.type.nullable THEN {NullV} ELSE {})
Rows(args) == {rw \in [1..Len(args) -> UNION {Cell(args[i], i) : i \in 1..Len(args)}] :
                  \A i \in 1..Len(args) : rw[i] \in Cell(args[i], i)}

\* the engine executes the returned node on one row
ExecuteRow ==
    /\ status = "ok"
    /\ out = NoneV
    /\ \E rw \in Rows(call.args), lz \in BOOLEAN :
         \E g \in (IF AnyNull(rw) THEN {0, 1} ELSE {0}) :
            /\ row' = rw
            /\ nested' = g
            /\ lazy' = lz
            /\ columns' = Execute(dag, rw, g, lz)
            /\ out' = columns'[ret]
    /\ UNCHANGED <<call, dagBefore, dag, parsed_args, built, ret, status>>

Next == Parse \/ ExecuteRow
NextParse == Parse

Spec == Init /\ [][Next]_vars
SpecParse == InitParse /\ [][NextParse]_vars

----------------------------------------------------------------------------
(* Reading the DAG parse left behind *)

Arity == Len(call.args)
\* parse has returned a node
Parsed == status = "ok"
\* the returned node has been executed on a row
Executed == out # NoneV
\* parse has returned and the DAG is inspected as it left it
Built == Parsed /\ ~Executed

NoNode == FuncNode("", <<>>, UInt8)
Node(n) == IF n \in 1..Len(dag) THEN dag[n] ELSE NoNode
Child(n, j) == IF j \in 1..Len(Node(n).children) THEN Node(n).children[j] ELSE 0

IsFn(n, name, kids) ==
    Node(n).kind = "function" /\ Node(n).name = name /\ Node(n).children = kids
IsInt32Const(n, x) == Node(n) = ConstNode(DataTypeInt32, IntV(x))
IsNullConst(n) == Node(n).kind = "const" /\ Node(n).value = NullV

FindFn(name, kids) ==
    IF \E n \in 1..Len(dag) : IsFn(n, name, kids)
    THEN CHOOSE n \in 1..Len(dag) : IsFn(n, name, kids) ELSE 0
FindInt32Const(x) ==
    IF \E n \in 1..Len(dag) : IsInt32Const(n, x)
    THEN CHOOSE n \in 1..Len(dag) : IsInt32Const(n, x) ELSE 0

StartArg == parsed_args[1]
EndArg   == parsed_args[2]
\* the synthesized step of the two-argument form, found by its shape
DefaultStep == FindFn("if", <<FindFn("lessOrEquals", <<StartArg, EndArg>>),
                              FindInt32Const(1), FindInt32Const(-1)>>)
StepArg  == IF Arity = 3 THEN parsed_args[3] ELSE DefaultStep

StartNotNull == FindFn("assumeNotNull", <<StartArg>>)
EndNotNull   == FindFn("assumeNotNull", <<EndArg>>)
StepNotNull  == FindFn("assumeNotNull", <<StepArg>>)
StepIsNull   == FindFn("isNull", <<StepArg>>)
\* stepForRange = if(isNull(step), 1, step')
StepForRange == FindFn("if", <<StepIsNull, FindInt32Const(1), StepNotNull>>)

AnyStaticNullable ==
    \/ Node(StartArg).type.nullable
    \/ Node(EndArg).type.nullable
    \/ Node(StepArg).type.nullable

Guarded == Node(built).name = "multiIf"
\* the three data operands of the final conditional
InclusiveCond == IF Guarded THEN Child(built, 7) ELSE Child(built, 1)
InclBranch    == IF Guarded THEN Child(built, 8) ELSE Child(built, 2)
ExclBranch    == IF Guarded THEN Child(built, 9) ELSE Child(built, 3)
RangeIncl     == IF Guarded THEN Child(InclBranch, 1) ELSE InclBranch
RangeExcl     == IF Guarded THEN Child(ExclBranch, 1) ELSE ExclBranch

RECURSIVE Reach(_)
Reach(n) == {n} \cup UNION {Reach(Node(n).children[j]) : j \in 1..Len(Node(n).children)}

Elems(sq) == {sq[j] : j \in 1..Len(sq)}
IsPrefix(p, sq) == Len(p) <= Len(sq) /\ \A j \in 1..Len(p) : p[j] = sq[j]

RowIsNonNull == \A i \in 1..Len(row) : row[i].tag = "int"

\* start, start + step, ... up to and including end, never past it
RECURSIVE Progression(_, _, _)
Progression(cur, e, st) ==
    IF (st > 0 /\ cur > e) \/ (st < 0 /\ cur < e) THEN <<>>
    ELSE <<cur>> \o Progression(cur + st, e, st)

\* step leads from start to end
Toward(s, e, st) == (s < e /\ st > 0) \/ (s > e /\ st < 0) \/ (s = e /\ st # 0)

----------------------------------------------------------------------------
(* The claims *)

ArityError == status = "NUMBER_OF_ARGUMENTS_DOESNT_MATCH"
LiteralConst(i) == ConstNode(call.args[i].type, LiteralValue)

\* C1, as stated: a call whose argument count is neither 2 nor 3 fails with the
\* argument-count error and the builder holds exactly the nodes it held before.
C1_ArityErrorAddsNoNode ==
    (status # "init" /\ Arity \notin {2, 3}) => (ArityError /\ dag = dagBefore)

\* C1, amended: a call whose argument count is neither 2 nor 3 fails with the
\* argument-count error and returns no node; the builder keeps the nodes it held
\* and gains the constants of the call's literal arguments, translated before
\* the count is tested, and nothing else.
C1_ArityErrorAddsOnlyArgumentNodes ==
    (status # "init" /\ Arity \notin {2, 3}) =>
        /\ ArityError
        /\ ret = 0 /\ built = 0
        /\ IsPrefix(dagBefore, dag)
        /\ \A k \in (Len(dagBefore) + 1)..Len(dag) :
              \E i \in 1..Arity : call.args[i].kind = "literal" /\ dag[k] = LiteralConst(i)
        /\ \A i \in 1..Arity :
              call.args[i].kind = "literal" => \E k \in 1..Len(dag) : dag[k] = LiteralConst(i)

\* a four-argument call of literals has failed and left their constants behind
C1_Witness == ArityError /\ Arity = 4 /\ Len(dag) > Len(dagBefore)

\* C2, as stated: on a row of non-null start, end and non-zero step the result is
\* an array that holds end exactly when (end - start) mod step = 0.
C2_IncludesEndIffRemainderZero ==
    (Executed /\ Arity = 3 /\ RowIsNonNull /\ row[3].i # 0) =>
        /\ out.tag = "arr"
        /\ (row[2].i \in Elems(out.a)) <=> (TruncMod(row[2].i - row[1].i, row[3].i) = 0)

\* C2, amended: on a row of non-null start, end and non-zero step the result is
\* start, start + step, ... never passing end; when step leads from start to end
\* it holds end exactly when (end - start) mod step = 0 and otherwise stops
\* before end, and when step leads away from end it is empty.
C2_ProgressionTowardEnd ==
    (Executed /\ Arity = 3 /\ RowIsNonNull /\ row[3].i # 0) =>
        LET s == row[1].i  e == row[2].i  st == row[3].i
        IN /\ out = ArrV(Progression(s, e, st))
           /\ Toward(s, e, st) =>
                /\ out.a # <<>> /\ out.a[1] = s
                /\ (e \in Elems(out.a)) <=> (TruncMod(e - s, st) = 0)
                /\ (e \in Elems(out.a)) => out.a[Len(out.a)] = e
           /\ ~Toward(s, e, st) => out.a = <<>>

\* sequence(1, 10, 3) = [1, 4, 7, 10]
C2_Witness == Arity = 3 /\ row = <<IntV(1), IntV(10), IntV(3)>> /\ out = ArrV(<<1, 4, 7, 10>>)

\* C3: without a step argument the step is the subtree
\* if(lessOrEquals(start, end), 1, -1), and on a row of non-null start and end the
\* result runs from start to end, both included, ascending when start <= end
\* and descending otherwise.
C3_DefaultStepRun ==
    (Parsed /\ Arity = 2) =>
        /\ Built =>
              /\ DefaultStep # 0
              /\ StepNotNull # 0
              /\ IsFn(RangeExcl, "range", <<StartNotNull, EndNotNull, StepForRange>>)
              /\ IsFn(RangeIncl, "range",
                      <<StartNotNull, FindFn("plus", <<EndNotNull, StepNotNull>>), StepForRange>>)
        /\ (Executed /\ RowIsNonNull) =>
              LET s == row[1].i  e == row[2].i
              IN /\ out.tag = "arr"
                 /\ Len(out.a) = Abs(e - s) + 1
                 /\ \A j \in 1..Len(out.a) :
                       out.a[j] = IF s <= e THEN s + (j - 1) ELSE s - (j - 1)

\* sequence(5, 1) = [5, 4, 3, 2, 1]
C3_Witness == Arity = 2 /\ row = <<IntV(5), IntV(1)>> /\ out = ArrV(<<5, 4, 3, 2, 1>>)

\* C4: on every row in which start, end or step is null the DAG evaluates to
\* null, whatever the other arguments hold (a zero step included).
C4_NullRowYieldsNull ==
    (Executed /\ AnyNull(row)) => out = NullV

\* C5: the node parse builds, before the output coercion, is of a nullable type
\* exactly when start, end or step (the synthesized step in the two-argument
\* form) is of a nullable type.
C5_NullableIffAnyArgumentNullable ==
    Parsed => /\ StepArg # 0
              /\ Node(built).type.nullable <=> AnyStaticNullable

\* three arguments of which only step is nullable: the built node is nullable
C5_Witness ==
    /\ Parsed /\ Arity = 3
    /\ ~Node(StartArg).type.nullable /\ ~Node(EndArg).type.nullable
    /\ Node(StepArg).type.nullable
    /\ Node(built).type.nullable

IsNullGuard(n) == IsNullConst(n) \/ Node(n).name = "isNull"

\* C6, as stated: when none of start, end, step is of a nullable type, no isNull
\* node and no null constant is reachable from the returned node.
C6_NoNullGuardReachable ==
    (Parsed /\ ~AnyStaticNullable) => \A n \in Reach(ret) : ~IsNullGuard(n)

\* C6, amended: when none of start, end, step is of a nullable type, the subtree
\* of the returned node holds no null constant, no multiIf and no isNull of start
\* or end; the one isNull node it holds is isNull(step), used only as the
\* condition of stepForRange = if(isNull(step), 1, step').
C6_OnlyStepIsNullReachable ==
    (Parsed /\ ~AnyStaticNullable) =>
        /\ \A n \in Reach(ret) : ~IsNullConst(n) /\ Node(n).name # "multiIf"
        /\ {n \in Reach(ret) : Node(n).name = "isNull"} = {StepIsNull}
        /\ IsFn(StepIsNull, "isNull", <<StepArg>>)
        /\ {n \in Reach(ret) : StepIsNull \in Elems(Node(n).children)} = {StepForRange}

\* a three-argument call on non-nullable arguments was parsed; isNull(step) is
\* in the returned subtree
C6_Witness == Parsed /\ Arity = 3 /\ ~AnyStaticNullable /\ StepIsNull \in Reach(ret)

\* the operand multiIf selects on the executed row
PickedOperand ==
    LET kids == Node(built).children
    IN MultiIfPick([j \in 1..Len(kids) |-> columns[kids[j]]], 1)

\* C7: when start, end or step is of a nullable type the built node is one
\* multiIf over, in this order, isNull(start) -> null, isNull(end) -> null,
\* isNull(step) -> null, inclusive -> widened rangeIncl, else widened rangeExcl;
\* the first guard that holds selects, so the inclusive condition selects only
\* on rows whose three arguments are non-null.
C7_GuardOrder ==
    /\ (Built /\ AnyStaticNullable) =>
          LET kids == Node(built).children
          IN /\ Guarded /\ Len(kids) = 9
             /\ IsFn(kids[1], "isNull", <<StartArg>>) /\ IsNullConst(kids[2])
             /\ IsFn(kids[3], "isNull", <<EndArg>>)   /\ kids[4] = kids[2]
             /\ IsFn(kids[5], "isNull", <<StepArg>>)  /\ kids[6] = kids[2]
             /\ Node(kids[7]).name = "equals" /\ Node(Child(kids[7], 1)).name = "modulo"
             /\ Node(kids[8]).name = "CAST" /\ Node(kids[8]).type.nullable
             /\ IsFn(Child(kids[8], 1), "range",
                     <<StartNotNull, FindFn("plus", <<EndNotNull, StepNotNull>>), StepForRange>>)
             /\ Node(kids[9]).name = "CAST" /\ Node(kids[9]).type.nullable
             /\ IsFn(Child(kids[9], 1), "range", <<StartNotNull, EndNotNull, StepForRange>>)
    /\ (Executed /\ Guarded) =>
          /\ IsNullV(row[1]) => PickedOperand = 2
          /\ (~IsNullV(row[1]) /\ IsNullV(row[2])) => PickedOperand = 4
          /\ (Arity = 3 /\ ~IsNullV(row[1]) /\ ~IsNullV(row[2]) /\ IsNullV(row[3]))
                 => PickedOperand = 6
          /\ PickedOperand >= 7 => RowIsNonNull

\* a row with a null end and a non-null start was executed: the second guard chose
C7_Witness ==
    /\ Parsed /\ Guarded /\ Executed
    /\ ~IsNullV(row[1]) /\ IsNullV(row[2]) /\ PickedOperand = 4 /\ out = NullV

\* C8, as stated: the inclusive condition is
\* equals(modulo(minus(end', start'), step'), 0) on the assumeNotNull projections.
C8_RemainderFromProjections ==
    Parsed => IsFn(InclusiveCond, "equals",
                   <<FindFn("modulo", <<FindFn("minus", <<EndNotNull, StartNotNull>>), StepNotNull>>),
                     FindInt32Const(0)>>)

\* C8, amended: the inclusive condition is
\* equals(modulo(minus(end, start), step), 0) on the argument nodes themselves
\* (step being the synthesized step in the two-argument form), not on their
\* assumeNotNull projections.
C8_RemainderFromArguments ==
    Parsed =>
        /\ FindFn("minus", <<EndArg, StartArg>>) # 0
        /\ FindFn("modulo", <<FindFn("minus", <<EndArg, StartArg>>), StepArg>>) # 0
        /\ IsFn(InclusiveCond, "equals",
                <<FindFn("modulo", <<FindFn("minus", <<EndArg, StartArg>>), StepArg>>),
                  FindInt32Const(0)>>)
        /\ \A n \in Reach(InclusiveCond) : Node(n).name # "assumeNotNull"

\* a call with a nullable start was parsed into the guarded form
C8_Witness == Parsed /\ Guarded /\ Node(StartArg).type.nullable /\ InclusiveCond # 0

StepNullRowYieldsNull ==
    (Executed /\ Arity = 3 /\ IsNullV(row[3])) => out = NullV

\* C9, as stated: rangeIncl = range(start', end' + stepForRange, stepForRange)
\* and rangeExcl = range(start', end', stepForRange), with
\* stepForRange = if(isNull(step), 1, step'); on a row whose step is null the
\* result is null.
C9_PlaceholderInSum ==
    /\ Built =>
          /\ StepForRange # 0
          /\ IsFn(RangeIncl, "range",
                  <<StartNotNull, FindFn("plus", <<EndNotNull, StepForRange>>), StepForRange>>)
          /\ IsFn(RangeExcl, "range", <<StartNotNull, EndNotNull, StepForRange>>)
    /\ StepNullRowYieldsNull

\* C9, amended: rangeIncl = range(start', end' + step', stepForRange) and
\* rangeExcl = range(start', end', stepForRange), with
\* stepForRange = if(isNull(step), 1, step'): the placeholder is the step operand
\* of both ranges, the sum adds step' itself; on a row whose step is null the
\* result is null.
C9_PlaceholderAsRangeStepOnly ==
    /\ Built =>
          /\ StepForRange # 0
          /\ FindFn("plus", <<EndNotNull, StepNotNull>>) # 0
          /\ IsFn(RangeIncl, "range",
                  <<StartNotNull, FindFn("plus", <<EndNotNull, StepNotNull>>), StepForRange>>)
          /\ IsFn(RangeExcl, "range", <<StartNotNull, EndNotNull, StepForRange>>)
    /\ StepNullRowYieldsNull

\* a row with a null step and non-null start and end was executed, with 1
\* stored under the null
C9_Witness ==
    /\ Executed /\ Arity = 3 /\ IsNullV(row[3]) /\ ~IsNullV(row[1]) /\ ~IsNullV(row[2])
    /\ nested = 1 /\ out = NullV

\* C10: in the guarded form the null constant and both converted range
\* branches are of one type, nullable(type of rangeIncl), and that array type is
\* at least as wide as rangeExcl's own, so converting rangeExcl widens.
C10_CommonNullableType ==
    (Parsed /\ AnyStaticNullable) =>
        LET t1 == Node(RangeIncl).type
            t2 == Node(RangeExcl).type
        IN /\ Guarded
           /\ IsFn(InclBranch, "CAST", <<RangeIncl>>) /\ Node(RangeIncl).name = "range"
           /\ IsFn(ExclBranch, "CAST", <<RangeExcl>>) /\ Node(RangeExcl).name = "range"
           /\ t1.k = "arr" /\ t2.k = "arr" /\ ~t1.nullable /\ ~t2.nullable
           /\ Node(InclBranch).type = makeNullable(t1)
           /\ Node(ExclBranch).type = makeNullable(t1)
           /\ Node(Child(built, 2)) = ConstNode(makeNullable(t1), NullV)
           /\ t1.w >= t2.w

\* the inclusive range is strictly wider than the exclusive one
C10_Witness ==
    Parsed /\ Guarded /\ Node(RangeIncl).type.w > Node(RangeExcl).type.w

=============================================================================
